---- MODULE Spec2Model ----
(***************************************************************************)
(* Model of the operator scripts under src/tools:                          *)
(*   ips.py          expands a subnet, provisions one dummy device per     *)
(*                   address and lists the addresses that came up,         *)
(*   account_info.py polls the genesis account, then the test account,     *)
(*                   until each query returns success.                     *)
(* Strings are TLA+ strings; concatenation is \o, slicing is SubSeq.       *)
(***************************************************************************)
EXTENDS Integers, Sequences, FiniteSets, TLC

VARIABLES
    platform,     \* sys.platform
    subnet,       \* args.subnet
    dev,          \* args.dev_prefix
    ips,          \* the list ips (addresses as integers)
    it,           \* number of elements the loop `for ip in ips` has consumed
    i,            \* the counter i
    pc,           \* position of ips.py
    fileOpened,   \* whether open(file, 'w') has been executed
    fileContent,  \* content of the output file, one element per f.write
    oldContent,   \* content of the output file when the script started
    host,         \* host networking operations that exited 0
    attempts,     \* one record per generate_dev call
    exitStatus,   \* exit status of ips.py, -1 while it runs
    aiPc,         \* position of account_info.py
    queries,      \* first MaxQueries calls of get_account_info
    sinceLast,    \* seconds slept since the last query
    succeeded     \* accounts whose query has returned True

ipsVars == <<platform, subnet, dev, ips, it, i, pc, fileOpened, fileContent,
             oldContent, host, attempts, exitStatus>>
aiVars == <<aiPc, queries, sinceLast, succeeded>>
vars == <<ipsVars, aiVars>>

---------------------------------------------------------------------------
(* Bounds *)

\* largest number of host bits of the subnets built from Bases
MaxHostBits == 1
\* number of get_account_info calls kept in the history `queries`
MaxQueries == 4

---------------------------------------------------------------------------
(* str(i) of an int, and the decimal parsing IPv4Network does *)

Digits == "0123456789"

Digit(d) == SubSeq(Digits, d + 1, d + 1)

RECURSIVE Str(_)
Str(n) == IF n < 10 THEN Digit(n) ELSE Str(n \div 10) \o Digit(n % 10)

IsDigit(c) == \E d \in 0..9 : Digit(d) = c

DigitVal(c) == CHOOSE d \in 0..9 : Digit(d) = c

IsDecimal(s) ==
    /\ Len(s) > 0
    /\ \A k \in 1..Len(s) : IsDigit(SubSeq(s, k, k))

RECURSIVE ParseInt(_)
ParseInt(s) ==
    IF Len(s) = 1 THEN DigitVal(s)
    ELSE 10 * ParseInt(SubSeq(s, 1, Len(s) - 1)) + DigitVal(SubSeq(s, Len(s), Len(s)))

\* s.split(sep) for a one-character separator
RECURSIVE SplitFrom(_, _, _, _)
SplitFrom(s, sep, from, k) ==
    IF k > Len(s) THEN <<SubSeq(s, from, Len(s))>>
    ELSE IF SubSeq(s, k, k) = sep
         THEN <<SubSeq(s, from, k - 1)>> \o SplitFrom(s, sep, k + 1, k + 1)
         ELSE SplitFrom(s, sep, from, k + 1)

Split(s, sep) == SplitFrom(s, sep, 1, 1)

StartsWith(s, p) == Len(s) >= Len(p) /\ SubSeq(s, 1, Len(p)) = p

---------------------------------------------------------------------------
(* ipaddress.IPv4Network(subnet) and str(IPv4Address) *)

Pow2(n) == 2 ^ n

\* one dotted-quad octet: 1 to 3 decimal digits, at most 255, no leading zero
ValidOctet(o) ==
    /\ IsDecimal(o)
    /\ Len(o) <= 3
    /\ (Len(o) > 1 => SubSeq(o, 1, 1) # "0")
    /\ ParseInt(o) <= 255

ValidAddress(a) ==
    LET parts == Split(a, ".")
    IN  /\ Len(parts) = 4
        /\ \A k \in 1..4 : ValidOctet(parts[k])

AddressInt(a) ==
    LET parts == Split(a, ".")
    IN  ((ParseInt(parts[1]) * 256 + ParseInt(parts[2])) * 256
          + ParseInt(parts[3])) * 256 + ParseInt(parts[4])

ValidPrefixLen(p) == IsDecimal(p) /\ ParseInt(p) <= 32

\* IPv4Network(subnet) raises ValueError unless this holds (strict=True:
\* no host bit of the address may be set)
ValidSubnet(s) ==
    LET parts == Split(s, "/")
    IN  /\ Len(parts) \in {1, 2}
        /\ ValidAddress(parts[1])
        /\ Len(parts) = 2 =>
              /\ ValidPrefixLen(parts[2])
              /\ AddressInt(parts[1]) % Pow2(32 - ParseInt(parts[2])) = 0

PrefixLen(s) ==
    LET parts == Split(s, "/")
    IN  IF Len(parts) = 2 THEN ParseInt(parts[2]) ELSE 32

\* mutant: IPv4Network(subnet).hosts(), which leaves out the network and the
\* broadcast address of a subnet with more than two addresses
NetworkHosts(s) ==
    LET parts == Split(s, "/")
        base == AddressInt(parts[1])
        n == Pow2(32 - (IF Len(parts) = 2 THEN ParseInt(parts[2]) ELSE 32))
    IN  IF n > 2 THEN [k \in 1..(n - 2) |-> base + k]
        ELSE [k \in 1..n |-> base + k - 1]

\* the addresses iterating IPv4Network(subnet) yields, in order
NetworkAddresses(s) ==
    LET parts == Split(s, "/")
        base == AddressInt(parts[1])
    IN  [k \in 1..Pow2(32 - PrefixLen(s)) |-> base + k - 1]

\* str(ip) of an IPv4Address
IpStr(n) ==
    Str(n \div 16777216) \o "." \o Str((n \div 65536) % 256) \o "."
    \o Str((n \div 256) % 256) \o "." \o Str(n % 256)

---------------------------------------------------------------------------
(* generate_dev *)

ExitCodes == {0, 1}

\* the four commands generate_dev chains with &&
Ops == <<"link_add", "hw_ether", "addr_add", "link_up">>

\* mutant: the commands chained with `;`, all four run
ChainRanAll(codes) == 4

\* number of commands the shell runs of `c1 && c2 && c3 && c4` when command
\* k would exit with codes[k]: up to and including the first non-zero exit
ChainRan(codes) ==
    IF \E k \in 1..4 : codes[k] # 0
    THEN CHOOSE k \in 1..4 : codes[k] # 0 /\ \A j \in 1..(k - 1) : codes[j] = 0
    ELSE 4

\* os.system's return value: the wait status of the shell, whose exit code
\* is that of the last command it ran
WaitStatus(code) == code * 256

\* argument of the command besides the device name
OpArg(k, ip_addr) == IF Ops[k] = "addr_add" THEN ip_addr ELSE ""

GenerateDev(device_name, ip_addr, codes) ==
    LET ran == ChainRan(codes)
    IN  [ran     |-> ran,
         ret     |-> WaitStatus(codes[ran]),
         effects |-> {[dev |-> device_name, op |-> Ops[k],
                       arg |-> OpArg(k, ip_addr)] :
                         k \in {j \in 1..ran : codes[j] = 0}}]

---------------------------------------------------------------------------
(* ips.py *)

Decl == "pub const IPS: &'static [&'static str] = &[ \n"

AddrLine(s) == "\t\"" \o s \o "\",\n"

Terminator == "];\n\n"

\* mutant: the platform guard never exits
IsLinuxAlways(p) == TRUE

\* sys.platform.startswith('linux')
IsLinux(p) == StartsWith(p, "linux")

\* mutant: open(file, 'a')
TruncateKeep(content) == content

\* open(file, 'w') truncates
Truncate(content) == <<>>

\* mutant: the address line is written whatever generate_dev returned
RecordedAlways(content, ip, ret) == Append(content, AddrLine(IpStr(ip)))

\* lines 57-58: the address line is written iff generate_dev returned 0
Recorded(content, ip, ret) ==
    IF ret = 0 THEN Append(content, AddrLine(IpStr(ip))) ELSE content

\* mutant: i += 1 inside the if
NextIndexOnSuccess(n, ret) == IF ret = 0 THEN n + 1 ELSE n

\* line 59
NextIndex(n, ret) == n + 1

\* mutant: the loop stops one element early
LoopDoneEarly(n, list) == n >= Len(list) - 1

\* the loop `for ip in ips` is exhausted
LoopDone(n, list) == n >= Len(list)

Platforms == {"linux", "darwin", "win32"}

Prefixes == {"foo", "test_eth"}

Bases == {"10.0.0.0", "10.0.0.252", "10.0.0.1", "10.0.256.0"}

\* values of --subnet: every base with every prefix length down to
\* 32 - MaxHostBits and the out-of-range length 33, the four-address subnet
\* 10.0.0.0/30, a bare address, and specifications IPv4Network rejects
Subnets ==
    {b \o "/" \o Str(p) : b \in Bases, p \in (32 - MaxHostBits)..33}
    \cup {"10.0.0.0/30", "10.0.0.2", "10.0.0/30", "10.0.0.0/30/1"}

OldContents == {<<>>, <<Decl, AddrLine("9.9.9.9"), Terminator>>}

InitIps ==
    /\ platform \in Platforms
    /\ subnet \in Subnets
    /\ dev \in Prefixes
    /\ oldContent \in OldContents
    /\ fileContent = oldContent
    /\ ips = <<>>
    /\ it = 0
    /\ i = 0
    /\ pc = "expand"
    /\ fileOpened = FALSE
    /\ host = {}
    /\ attempts = <<>>
    /\ exitStatus = -1

\* mutant: a malformed subnet expands to no address instead of raising
ExpandUnchecked ==
    /\ pc = "expand"
    /\ ips' = IF ValidSubnet(subnet) THEN NetworkAddresses(subnet) ELSE <<>>
    /\ pc' = "guard"
    /\ UNCHANGED <<platform, subnet, dev, it, i, fileOpened, fileContent,
                   oldContent, host, attempts, exitStatus, aiVars>>

\* lines 43-46; an uncaught ValueError ends the interpreter with status 1
Expand ==
    /\ pc = "expand"
    /\ IF ValidSubnet(subnet)
       THEN /\ ips' = NetworkAddresses(subnet)
            /\ pc' = "guard"
            /\ UNCHANGED exitStatus
       ELSE /\ pc' = "exit"
            /\ exitStatus' = 1
            /\ UNCHANGED ips
    /\ UNCHANGED <<platform, subnet, dev, it, i, fileOpened, fileContent,
                   oldContent, host, attempts, aiVars>>

\* lines 48-50
PlatformGuard ==
    /\ pc = "guard"
    /\ IF IsLinux(platform)
       THEN pc' = "open" /\ UNCHANGED exitStatus
       ELSE pc' = "exit" /\ exitStatus' = 0
    /\ UNCHANGED <<platform, subnet, dev, ips, it, i, fileOpened, fileContent,
                   oldContent, host, attempts, aiVars>>

\* lines 52-55
OpenFile ==
    /\ pc = "open"
    /\ i' = 0
    /\ fileOpened' = TRUE
    /\ fileContent' = Append(Truncate(fileContent), Decl)
    /\ it' = 0
    /\ pc' = "loop"
    /\ UNCHANGED <<platform, subnet, dev, ips, oldContent, host, attempts,
                   exitStatus, aiVars>>

\* mutant: a failed generate_dev ends the script with status 1
LoopBodyAbortOnFailure ==
    /\ pc = "loop"
    /\ ~LoopDone(it, ips)
    /\ \E codes \in [1..4 -> ExitCodes] :
          LET ip == ips[it + 1]
              device_name == dev \o Str(i)
              r == GenerateDev(device_name, IpStr(ip), codes)
          IN  /\ attempts' = Append(attempts,
                     [dev |-> device_name, ip |-> IpStr(ip), ran |-> r.ran,
                      ret |-> r.ret])
              /\ host' = host \cup r.effects
              /\ fileContent' = Recorded(fileContent, ip, r.ret)
              /\ i' = NextIndex(i, r.ret)
              /\ IF r.ret = 0
                 THEN UNCHANGED <<pc, exitStatus>>
                 ELSE pc' = "exit" /\ exitStatus' = 1
    /\ it' = it + 1
    /\ UNCHANGED <<platform, subnet, dev, ips, fileOpened, oldContent, aiVars>>

\* lines 56-59, one iteration
LoopBody ==
    /\ pc = "loop"
    /\ ~LoopDone(it, ips)
    /\ \E codes \in [1..4 -> ExitCodes] :
          LET ip == ips[it + 1]
              device_name == dev \o Str(i)
              r == GenerateDev(device_name, IpStr(ip), codes)
          IN  /\ attempts' = Append(attempts,
                     [dev |-> device_name, ip |-> IpStr(ip), ran |-> r.ran,
                      ret |-> r.ret])
              /\ host' = host \cup r.effects
              /\ fileContent' = Recorded(fileContent, ip, r.ret)
              /\ i' = NextIndex(i, r.ret)
    /\ it' = it + 1
    /\ UNCHANGED <<platform, subnet, dev, ips, pc, fileOpened, oldContent,
                   exitStatus, aiVars>>

\* line 61 and the end of the with block; the script ends with status 0
CloseFile ==
    /\ pc = "loop"
    /\ LoopDone(it, ips)
    /\ fileContent' = Append(fileContent, Terminator)
    /\ pc' = "exit"
    /\ exitStatus' = 0
    /\ UNCHANGED <<platform, subnet, dev, ips, it, i, fileOpened, oldContent,
                   host, attempts, aiVars>>

NextIps == Expand \/ PlatformGuard \/ OpenFile \/ LoopBody \/ CloseFile

---------------------------------------------------------------------------
(* account_info.py *)

GENESIS_ACCOUNT == "GENESIS_ACCOUNT"

TEST_ACCOUNT == "TEST_ACCOUNT"

\* sleep(1)
SleepSeconds == 1

\* what client.request does: raise httpx.ConnectError, or return a response
\* whose status is SUCCESS or ERROR
Responses == {"ConnectError", "success", "error"}

\* mutant: the except branch returns True
GetAccountInfoExceptTrue(response) ==
    IF response = "ConnectError" THEN TRUE
    ELSE IF response = "success" THEN TRUE
    ELSE FALSE

\* lines 14-34: the value get_account_info returns
GetAccountInfo(response) ==
    IF response = "ConnectError" THEN FALSE
    ELSE IF response = "success" THEN TRUE
    ELSE FALSE

\* where the script goes once the loop polling `account` ends
AfterLoop(account) == IF account = GENESIS_ACCOUNT THEN "test" ELSE "done"

\* the position at which `account` is queried
QueryPc(account) == IF account = GENESIS_ACCOUNT THEN "genesis" ELSE "test"

SleepPc(account) ==
    IF account = GENESIS_ACCOUNT THEN "genesis_sleep" ELSE "test_sleep"

InitAccount ==
    /\ aiPc = "genesis"
    /\ queries = <<>>
    /\ sinceLast = 0
    /\ succeeded = {}

\* the loop condition `not get_account_info(account)`, lines 39 and 45
QueryWith(account, response) ==
    /\ aiPc = QueryPc(account)
    /\ queries' =
          IF Len(queries) < MaxQueries
          THEN Append(queries, [account |-> account, response |-> response,
                                delay |-> sinceLast])
          ELSE queries
    /\ sinceLast' = 0
    /\ succeeded' =
          IF response = "success" THEN succeeded \cup {account} ELSE succeeded
    /\ aiPc' =
          IF GetAccountInfo(response) THEN AfterLoop(account)
          ELSE SleepPc(account)
    /\ UNCHANGED ipsVars

Query(account) == \E response \in Responses : QueryWith(account, response)

\* the loop body sleep(1), lines 40 and 46
Sleep(account) ==
    /\ aiPc = SleepPc(account)
    /\ sinceLast' = sinceLast + SleepSeconds
    /\ aiPc' = QueryPc(account)
    /\ UNCHANGED <<queries, succeeded, ipsVars>>

NextAccount ==
    \/ Query(GENESIS_ACCOUNT)
    \/ Sleep(GENESIS_ACCOUNT)
    \/ Query(TEST_ACCOUNT)
    \/ Sleep(TEST_ACCOUNT)

---------------------------------------------------------------------------
(* Specifications *)

Init == InitIps /\ InitAccount

\* ips.py is not run
IdleIps ==
    /\ platform = "linux"
    /\ subnet = "1.1.1.0/28"
    /\ dev = "test_eth"
    /\ oldContent = <<>>
    /\ fileContent = <<>>
    /\ ips = <<>>
    /\ it = 0
    /\ i = 0
    /\ pc = "expand"
    /\ fileOpened = FALSE
    /\ host = {}
    /\ attempts = <<>>
    /\ exitStatus = -1

Next == NextIps

\* a run of ips.py
Spec == Init /\ [][Next]_vars

InitAccountRun == IdleIps /\ InitAccount

\* a run of account_info.py
SpecAccount == InitAccountRun /\ [][NextAccount]_vars

\* account_info.py keeps running, and a server that is asked again and again
\* about an account eventually answers success
LiveSpecAccount ==
    /\ SpecAccount
    /\ WF_vars(NextAccount)
    /\ SF_vars(QueryWith(GENESIS_ACCOUNT, "success"))
    /\ SF_vars(QueryWith(TEST_ACCOUNT, "success"))

---------------------------------------------------------------------------
(* Properties of ips.py *)

\* the generate_dev calls that returned 0, in call order
Successes == SelectSeq(attempts, LAMBDA a : a.ret = 0)

\* the address lines this run has written to the output file
WrittenLines ==
    IF fileOpened
    THEN SelectSeq(fileContent, LAMBDA l : l # Decl /\ l # Terminator)
    ELSE <<>>

SuccessLines == [k \in 1..Len(Successes) |-> AddrLine(Successes[k].ip)]

NonLinuxHost == platform \in {"darwin", "win32"}

LinuxHost == platform = "linux"

AllSucceeded == \A k \in 1..Len(attempts) : attempts[k].ret = 0

AllFailed == \A k \in 1..Len(attempts) : attempts[k].ret # 0

\* the operations on device d that the host has carried out
OpsDone(d) == {k \in 1..4 : \E e \in host : e.dev = d /\ e.op = Ops[k]}

\* C1: between any two statements of the loop, the address lines written to
\* the output file are exactly the addresses whose generate_dev call
\* returned 0 among the calls made so far, in enumeration order: the k-th
\* call was for the k-th enumerated address, and no line appears twice.
C1_WrittenAreSuccesses ==
    /\ WrittenLines = SuccessLines
    /\ Len(attempts) <= Len(ips)
    /\ \A k \in 1..Len(attempts) : attempts[k].ip = IpStr(ips[k])
    /\ \A a, b \in 1..Len(WrittenLines) :
          a # b => WrittenLines[a] # WrittenLines[b]

C1_Witness ==
    /\ Len(attempts) >= 3
    /\ attempts[1].ret # 0
    /\ attempts[2].ret = 0
    /\ attempts[3].ret # 0
    /\ Len(WrittenLines) = 1

\* C2 as claimed: on a host that is not Linux the output file is never
\* opened, generate_dev is never called, and the script exits with status 0.
C2_NonLinuxExitsZero ==
    NonLinuxHost =>
        /\ ~fileOpened
        /\ fileContent = oldContent
        /\ attempts = <<>>
        /\ host = {}
        /\ (pc = "exit" => exitStatus = 0)

\* C2 amended: on a host that is not Linux the output file is never opened,
\* generate_dev is never called, and the script exits with status 0 when the
\* subnet is well formed and with status 1 (ValueError) when it is not.
C2_NonLinuxNoMutation ==
    NonLinuxHost =>
        /\ ~fileOpened
        /\ fileContent = oldContent
        /\ attempts = <<>>
        /\ host = {}
        /\ (pc = "exit" =>
               exitStatus = IF ValidSubnet(subnet) THEN 0 ELSE 1)

C2_Witness ==
    /\ NonLinuxHost
    /\ pc = "exit"
    /\ exitStatus = 0
    /\ oldContent # <<>>

\* C3 (state part): on Linux with a well-formed subnet the k-th generate_dev
\* call is for the k-th enumerated address whatever the earlier calls
\* returned, the script has no exit status while addresses are pending, and
\* when it has exited every address was attempted once, the terminator is
\* written and the status is 0.
C3_Inv ==
    (LinuxHost /\ ValidSubnet(subnet)) =>
        /\ Len(attempts) <= Len(ips)
        /\ \A k \in 1..Len(attempts) : attempts[k].ip = IpStr(ips[k])
        /\ pc # "exit" => exitStatus = -1
        /\ pc = "exit" =>
              /\ exitStatus = 0
              /\ Len(attempts) = Len(ips)
              /\ Len(ips) = Pow2(32 - PrefixLen(subnet))
              /\ fileContent[Len(fileContent)] = Terminator

\* position of ips.py in its text
PcRank ==
    CASE pc = "expand" -> 0
      [] pc = "guard" -> 1
      [] pc = "open" -> 2
      [] pc = "loop" -> 3
      [] pc = "exit" -> 4

\* every step moves ips.py forward in its text or consumes one address
C3_Progress ==
    \/ PcRank' > PcRank
    \/ PcRank' = PcRank /\ Len(ips') - it' < Len(ips) - it /\ it' <= Len(ips')

\* C3: on Linux with a well-formed subnet a failed attempt never aborts the
\* run: C3_Inv always holds, the script has a next step whenever it has not
\* exited, and every step brings it closer to its end, so the run reaches
\* the end with every address attempted and status 0.
C3_RunsToCompletion ==
    /\ []C3_Inv
    /\ []((LinuxHost /\ ValidSubnet(subnet) /\ pc # "exit") => ENABLED Next)
    /\ [][C3_Progress]_vars

C3_Witness ==
    /\ LinuxHost
    /\ pc = "exit"
    /\ Len(attempts) = 4
    /\ AllFailed

\* C4: the k-th generate_dev call (k from 0) is for the k-th enumerated
\* address on the device named prefix + str(k), whatever the earlier calls
\* returned; the counter i equals the number of calls made, and no device
\* name is used by two calls.
C4_DeviceNaming ==
    /\ fileOpened => i = Len(attempts)
    /\ \A k \in 1..Len(attempts) :
          /\ attempts[k].dev = dev \o Str(k - 1)
          /\ StartsWith(attempts[k].dev, dev)
          /\ ParseInt(SubSeq(attempts[k].dev, Len(dev) + 1,
                             Len(attempts[k].dev))) = k - 1
          /\ attempts[k].ip = IpStr(ips[k])
    /\ \A a, b \in 1..Len(attempts) :
          a # b => attempts[a].dev # attempts[b].dev

C4_Witness ==
    /\ Len(attempts) = 4
    /\ attempts[1].ret # 0
    /\ attempts[2].ret = 0
    /\ attempts[3].ret # 0
    /\ attempts[4].dev = "test_eth3"

\* C5: when every host command succeeds, the written address list is the
\* full enumeration: 2^(32 - prefix length) addresses, starting at the
\* subnet's address and ascending by one; for 10.0.0.0/30 with prefix foo
\* the devices are foo0..foo3 and the file holds 10.0.0.0 .. 10.0.0.3.
C5_AllSucceed ==
    (pc = "exit" /\ fileOpened /\ AllSucceeded) =>
        /\ Len(WrittenLines) = Pow2(32 - PrefixLen(subnet))
        /\ WrittenLines = [k \in 1..Len(attempts) |-> AddrLine(attempts[k].ip)]
        /\ attempts[1].ip = Split(subnet, "/")[1]
        /\ \A k \in 1..(Len(attempts) - 1) :
              AddressInt(attempts[k + 1].ip) = AddressInt(attempts[k].ip) + 1
        /\ \A k \in 1..Len(attempts) : OpsDone(attempts[k].dev) = 1..4
        /\ (subnet = "10.0.0.0/30" /\ dev = "foo") =>
              /\ fileContent = <<Decl, "\t\"10.0.0.0\",\n", "\t\"10.0.0.1\",\n",
                                 "\t\"10.0.0.2\",\n", "\t\"10.0.0.3\",\n",
                                 Terminator>>
              /\ [k \in 1..4 |-> <<attempts[k].dev, attempts[k].ip>>] =
                    << <<"foo0", "10.0.0.0">>, <<"foo1", "10.0.0.1">>,
                       <<"foo2", "10.0.0.2">>, <<"foo3", "10.0.0.3">> >>

C5_Witness ==
    /\ pc = "exit"
    /\ fileOpened
    /\ AllSucceeded
    /\ subnet = "10.0.0.0/30"
    /\ dev = "foo"
    /\ Len(attempts) = 4

\* C6: with a malformed subnet the script fails (status 1) at the expansion:
\* on every platform the output file is never opened or changed and
\* generate_dev is never called.
C6_MalformedSubnet ==
    ~ValidSubnet(subnet) =>
        /\ pc \in {"expand", "exit"}
        /\ ~fileOpened
        /\ fileContent = oldContent
        /\ attempts = <<>>
        /\ host = {}
        /\ (pc = "exit" => exitStatus = 1)

C6_Witness ==
    /\ ~ValidSubnet(subnet)
    /\ LinuxHost
    /\ pc = "exit"
    /\ oldContent # <<>>

\* C7 as claimed: the output file is not opened or written while an
\* enumerated address has not been attempted yet.
C7_WrittenOnceAtEnd == ~(fileOpened /\ it < Len(ips))

\* C7 amended: the file is opened, truncated and given its declaration line
\* before the first attempt, each address line is written as soon as its
\* attempt has succeeded, and only the terminator waits for the end: it is
\* written once no address is pending.
C7_TerminatorAtEnd ==
    /\ attempts # <<>> => fileOpened
    /\ fileOpened =>
          /\ fileContent[1] = Decl
          /\ pc = "loop" => fileContent = <<Decl>> \o SuccessLines
          /\ (\E k \in 1..Len(fileContent) : fileContent[k] = Terminator) =>
                (pc = "exit" /\ it = Len(ips) /\ Len(attempts) = Len(ips))

C7_Witness ==
    /\ fileOpened
    /\ it < Len(ips)
    /\ Len(fileContent) = 3
    /\ oldContent # <<>>

\* C9: a generate_dev call runs create device, set hardware address, assign
\* address, link up in that order and returns 0 only if all four exited 0;
\* when command k exits non-zero the later ones are not run, the effects of
\* commands 1..k-1 stay on the host, and the address is not attempted again.
C9_ChainedCommands ==
    /\ Len(attempts) <= Len(ips)
    /\ \A n \in 1..Len(attempts) :
          LET a == attempts[n]
          IN  /\ a.ran \in 1..4
              /\ a.ret = 0 <=> OpsDone(a.dev) = 1..4
              /\ a.ret = 0 => a.ran = 4
              /\ a.ret # 0 => OpsDone(a.dev) = 1..(a.ran - 1)
              /\ \A e \in host :
                    (e.dev = a.dev /\ e.op = "addr_add") => e.arg = a.ip
              /\ \A m \in 1..Len(attempts) : m # n => attempts[m].ip # a.ip

C9_Witness ==
    /\ Len(attempts) >= 2
    /\ attempts[1].ret # 0
    /\ attempts[1].ran = 3
    /\ OpsDone(attempts[1].dev) = {1, 2}
    /\ attempts[2].ran = 1

\* C10: after a completed run on Linux the output file is the declaration
\* line, one line per successful address, then the terminator and a blank
\* line, whatever the file held before; with no success it is the
\* declaration and the terminator alone.
C10_FinalContent ==
    (pc = "exit" /\ LinuxHost /\ ValidSubnet(subnet)) =>
        /\ fileContent = <<Decl>> \o SuccessLines \o <<Terminator>>
        /\ AllFailed => fileContent = <<Decl, "];\n\n">>

C10_Witness ==
    /\ pc = "exit"
    /\ fileOpened
    /\ oldContent # <<>>
    /\ Len(attempts) = 4
    /\ AllFailed
    /\ fileContent = <<Decl, Terminator>>

---------------------------------------------------------------------------
(* Properties of account_info.py *)

\* C8 (state part): a failed query is followed, one second later, by a query
\* of the same account; the test account is queried only after a query of
\* the genesis account returned success; the script ends only after both
\* accounts returned success.
C8_Inv ==
    /\ \A k \in 1..(Len(queries) - 1) :
          queries[k].response # "success" =>
              /\ queries[k + 1].account = queries[k].account
              /\ queries[k + 1].delay = 1
    /\ \A k \in 1..Len(queries) :
          queries[k].account = TEST_ACCOUNT =>
              \E j \in 1..(k - 1) :
                  /\ queries[j].account = GENESIS_ACCOUNT
                  /\ queries[j].response = "success"
    /\ aiPc \in {"test", "test_sleep", "done"} => GENESIS_ACCOUNT \in succeeded
    /\ aiPc = "done" => succeeded = {GENESIS_ACCOUNT, TEST_ACCOUNT}
    /\ aiPc \in {"genesis_sleep", "test_sleep"} => sinceLast = 0

\* C8: a ConnectError or a non-success response never ends the script
\* (C8_Inv), and when the server eventually answers success for both
\* accounts the script ends.
C8_PollsUntilSuccess == []C8_Inv /\ <>(aiPc = "done")

C8_Witness ==
    /\ aiPc = "done"
    /\ Len(queries) = 4
    /\ queries[1].response = "ConnectError"
    /\ queries[3].response = "error"

====
